---- MODULE Spec2Model ----
(***************************************************************************)
(* A model of tone_comparator's waveform core:                             *)
(*   utils/wfm.py         Wfm / WfmSquare (construction, filter list,      *)
(*                        generation, PCM write and read)                  *)
(*   utils/util_funcs.py  analyze_transitions,                             *)
(*                        calculate_fundamental_frequency                  *)
(*   tone_compare.py      select_devices, keypress_monitor and the loop    *)
(*                        of main                                          *)
(*                                                                         *)
(* Python floats are modelled as exact rationals <<n, d>> with d > 0, so   *)
(* floating-point rounding is not represented.  None is the empty tuple,   *)
(* an attribute that was never assigned is Unset.                          *)
(***************************************************************************)
EXTENDS Integers, Sequences, FiniteSets, TLC

VARIABLES
    self,       \* the Waveform instance the last constructor call returned
    args,       \* the arguments of the last constructor call
    raised,     \* the exception the last operation raised, or "none"
    op,         \* the last operation that ran
    periods_n,  \* the period lengths _create_wfm drew last (its local periods_n)
    file,       \* the PCM container on disk at the path the model uses
    writers,    \* history: the constructor arguments of each instance that wrote it
    buf,        \* the sample buffer a caller hands to the analysis functions
    call,       \* the other arguments of the analysis call
    ret,        \* what the analysis function computed
    selected_indexes,   \* main: the device indexes the operator selected
    m,                  \* main: the position in selected_indexes
    freq_Hz,            \* main: the frequency measured last
    last_dev_freq_Hz,   \* main: the reference frequency of the ratio
    keypress_queue,     \* the queue from keypress_monitor to main
    space_pressed,      \* whether the space key is down
    pc_main,            \* where main is
    pc_monitor,         \* where the keypress_monitor process is
    main_raised         \* the exception that ended main, or "none"

vars == <<self, args, raised, op, periods_n, file, writers, buf, call, ret,
          selected_indexes, m, freq_Hz, last_dev_freq_Hz, keypress_queue,
          space_pressed, pc_main, pc_monitor, main_raised>>

wfmVars  == <<self, args, raised, op, periods_n, file, writers>>
utilVars == <<buf, call, ret>>
mainVars == <<selected_indexes, m, freq_Hz, last_dev_freq_Hz, keypress_queue,
              space_pressed, pc_main, pc_monitor, main_raised>>

----------------------------------------------------------------------------
(* Values *)

None  == <<>>
Unset == <<0, 0, 0>>

Rat(n, d) == <<n, d>>
IsNum(x)  == Len(x) = 2

\* Python truthiness of an optional number: None and 0 are falsy.
Truthy(x) == IsNum(x) /\ x[1] # 0

Abs(n) == IF n < 0 THEN -n ELSE n
Sgn(n) == IF n < 0 THEN -1 ELSE IF n > 0 THEN 1 ELSE 0

\* a/b > c/d and a/b = c/d for denominators > 0
RatGt(x, y) == x[1] * y[2] > y[1] * x[2]
RatMul(x, y) == <<x[1] * y[1], x[2] * y[2]>>
RatDiv(x, y) == IF y[1] > 0 THEN <<x[1] * y[2], x[2] * y[1]>>
                            ELSE <<-(x[1] * y[2]), -(x[2] * y[1])>>

\* math.ceil and math.floor of a rational with denominator > 0
Ceil(x)  == -((-x[1]) \div x[2])
Floor(x) == x[1] \div x[2]

\* numpy's round(): to the nearest integer, a tie to the even neighbour
RoundHalfEven(x) ==
    LET f == Floor(x)
        r == 2 * (x[1] - f * x[2])      \* twice the fractional part, times d
    IN  IF r < x[2] THEN f
        ELSE IF r > x[2] THEN f + 1
        ELSE IF f % 2 = 0 THEN f ELSE f + 1

Max2(a, b) == IF a > b THEN a ELSE b
Min2(a, b) == IF a < b THEN a ELSE b

C_DEFAULT_SR_Hz == 192000

----------------------------------------------------------------------------
(* The instance *)

\* self.wfm: numerators over a common denominator, and the filters applied
\* to them so far (a filtered buffer's values are kept symbolic).
EmptyWfm == [data |-> <<>>, den |-> 1, filt |-> <<>>]

NoInstance ==
    [exists |-> FALSE, freq_Hz |-> Unset, duration_s |-> Unset,
     sample_rate_Hz |-> Unset, period_std_s |-> Unset,
     _filter_list |-> <<>>, wfm |-> EmptyWfm]

----------------------------------------------------------------------------
(* The PCM container on disk *)

NoFile == [exists |-> FALSE, framerate |-> <<>>, nchannels |-> 0,
           sampwidth |-> 0, frames |-> <<>>]

\* A frame-rate field of two bytes only.
PackLE16(n) == <<n % 256, (n \div 256) % 256, 0, 0>>

\* struct.pack('<L', n) and struct.unpack('<L', b): the 4-byte little-endian
\* field the wave module keeps the frame rate in.
PackLE32(n) ==
    <<n % 256, (n \div 256) % 256, (n \div 65536) % 256, (n \div 16777216) % 256>>

UnpackLE32(b) == b[1] + 256 * b[2] + 65536 * b[3] + 16777216 * b[4]

\* np.iinfo(dtype).max of the dtype a sample width selects
IinfoMax(sampwidth) == IF sampwidth = 2 THEN 32767 ELSE 2147483647

\* float division truncated by astype(dtype): toward zero
TruncDiv(a, b) == Sgn(a) * Sgn(b) * (Abs(a) \div Abs(b))

RECURSIVE SumSeq(_)
SumSeq(s) == IF s = <<>> THEN 0 ELSE Head(s) + SumSeq(Tail(s))

\* audio.reshape(-1, n_channels).mean(axis=1).astype(dtype)
MeanToMono(frames, n_channels) ==
    [i \in 1..(Len(frames) \div n_channels) |->
        TruncDiv(SumSeq(SubSeq(frames, (i - 1) * n_channels + 1, i * n_channels)),
                 n_channels)]

\* Wfm._read_wave: the attributes it assigns, or the exception it raises.
read_wave(f) ==
    IF ~f.exists THEN [raised |-> "FileNotFoundError"]
    ELSE IF f.sampwidth \notin {2, 4} THEN [raised |-> "ValueError"]
    ELSE LET audio == IF f.nchannels > 1 THEN MeanToMono(f.frames, f.nchannels)
                                         ELSE f.frames
         IN  [raised |-> "none",
              sample_rate_Hz |-> Rat(UnpackLE32(f.framerate), 1),
              wfm |-> [data |-> audio, den |-> IinfoMax(f.sampwidth), filt |-> <<>>]]

----------------------------------------------------------------------------
(* Construction *)

\* Wfm.__init__: the instance, or the exception.
Wfm_init(a, f) ==
    IF a.filepath = None /\ (~Truthy(a.freq_Hz) /\ ~Truthy(a.duration_s))
    THEN [raised |-> "ValueError", self |-> NoInstance]
    ELSE IF a.filepath # None
    THEN LET r == read_wave(f)
         IN  IF r.raised # "none"
             THEN [raised |-> r.raised, self |-> NoInstance]
             ELSE [raised |-> "none",
                   self |-> [NoInstance EXCEPT !.exists = TRUE,
                                               !.sample_rate_Hz = r.sample_rate_Hz,
                                               !.wfm = r.wfm]]
    ELSE [raised |-> "none",
          self |-> [NoInstance EXCEPT
                      !.exists = TRUE,
                      !.freq_Hz = a.freq_Hz,
                      !.duration_s = a.duration_s,
                      !.sample_rate_Hz =
                          IF Truthy(a.freq_Hz)
                          THEN (IF Truthy(a.sample_rate_Hz) THEN a.sample_rate_Hz
                                                            ELSE Rat(C_DEFAULT_SR_Hz, 1))
                          ELSE Unset]]

\* The argument check of WfmSquare.__init__ (line 108).
PeriodStdRejected(a) ==
    /\ a.filepath # None
    /\ Truthy(a.period_std_s) /\ Truthy(a.freq_Hz)
    /\ RatGt(a.period_std_s, RatDiv(Rat(1, 4), a.freq_Hz))

\* WfmSquare.__init__
WfmSquare_init(a, f) ==
    IF PeriodStdRejected(a)
    THEN [raised |-> "ValueError", self |-> NoInstance]
    ELSE LET r == Wfm_init(a, f)
         IN  IF r.raised # "none" THEN r
             ELSE [raised |-> "none",
                   self |-> [r.self EXCEPT !.period_std_s = a.period_std_s]]

----------------------------------------------------------------------------
(* The filter list *)

\* What a caller may pass to add_filter_to_list: a FilterButterworth
\* (sample_rate_Hz, cutoff_Hz, order, type) or an object of another type.
NotAFilter == [isFilterButterworth |-> FALSE, sample_rate_Hz |-> 0,
               cutoff_Hz |-> 0, order |-> 0, type |-> "low"]

FilterButterworth(sr, cutoff, order, type) ==
    [isFilterButterworth |-> TRUE, sample_rate_Hz |-> sr,
     cutoff_Hz |-> cutoff, order |-> order, type |-> type]

\* scipy.signal.butter(order, Wn, btype): the coefficient pair [b, a], kept
\* symbolic (each has order + 1 taps), or ValueError unless 0 < Wn < 1.
butter(order, Wn, btype) ==
    IF Wn[1] > 0 /\ Wn[1] < Wn[2]
    THEN [raised |-> "none", ba |-> [N |-> order, Wn |-> Wn, btype |-> btype]]
    ELSE [raised |-> "ValueError", ba |-> [N |-> order, Wn |-> Wn, btype |-> btype]]

\* Wfm.add_filter_to_list: the new list, or the exception.
add_filter_to_list(list, fs) ==
    IF fs.isFilterButterworth
    THEN LET normalized_cutoff_Hz == Rat(2 * fs.cutoff_Hz, fs.sample_rate_Hz)
             r == butter(fs.order, normalized_cutoff_Hz, fs.type)
         IN  IF r.raised # "none"
             THEN [raised |-> r.raised, list |-> list]
             ELSE [raised |-> "none", list |-> Append(list, <<fs, r.ba>>)]
    ELSE [raised |-> "ValueError", list |-> list]

\* scipy.signal.filtfilt(b, a, x): ValueError unless len(x) > padlen, with
\* the default padlen = 3 * max(len(a), len(b)); else a buffer of len(x)
\* samples, here x with the filter recorded as applied.
filtfilt(ba, x) ==
    IF Len(x.data) <= 3 * (ba.N + 1)
    THEN [raised |-> "ValueError", wfm |-> x]
    ELSE [raised |-> "none", wfm |-> [x EXCEPT !.filt = Append(@, ba)]]

\* Wfm._apply_filters from the k-th list item on: self.wfm afterwards, and
\* the exception that ended the loop early.
RECURSIVE apply_filters(_, _, _)
apply_filters(w, list, k) ==
    IF k > Len(list) THEN [raised |-> "none", wfm |-> w]
    ELSE IF list[k][1].isFilterButterworth
    THEN LET r == filtfilt(list[k][2], w)
         IN  IF r.raised # "none" THEN r
             ELSE apply_filters(r.wfm, list, k + 1)
    ELSE apply_filters(w, list, k + 1)

----------------------------------------------------------------------------
(* Square-wave generation *)

\* How far from the rounded nominal period the model lets a drawn period
\* fall when the standard deviation is positive (the normal distribution
\* itself has no bound).
MaxJitter == 3

\* A sample count that rounds the duration down.
duration_n_floor(s) == Floor(RatMul(s.duration_s, s.sample_rate_Hz))

\* Sample counts of WfmSquare._create_wfm (lines 118-125); they are defined
\* once duration_s, sample_rate_Hz and freq_Hz are numbers.
duration_n(s) == Ceil(RatMul(s.duration_s, s.sample_rate_Hz))
period_n(s)   == RatDiv(s.sample_rate_Hz, s.freq_Hz)
n_periods(s)  == Ceil(RatDiv(Rat(duration_n(s), 1), period_n(s)))
n_samples_half_mean_period(s) == Floor(RatMul(period_n(s), Rat(1, 2)))

\* The first exception _create_wfm raises while reading its attributes
\* (lines 118-121), or "none".
create_wfm_precheck(s) ==
    IF s.duration_s = Unset \/ s.sample_rate_Hz = Unset THEN "AttributeError"
    ELSE IF ~IsNum(s.duration_s) THEN "TypeError"
    ELSE IF ~IsNum(s.period_std_s) THEN "TypeError"
    ELSE "none"

\* Draws that jitter even when the standard deviation is 0.
PeriodDrawsAlwaysJitter(s) ==
    LET mean == RoundHalfEven(RatDiv(s.sample_rate_Hz, s.freq_Hz))
    IN  [1..Ceil(RatDiv(Rat(Ceil(RatMul(s.duration_s, s.sample_rate_Hz)), 1),
                        RatDiv(s.sample_rate_Hz, s.freq_Hz)))
            -> (mean - MaxJitter)..(mean + MaxJitter)]

\* rand_gen.normal(period_n, period_std_n, count).round().astype(int): the
\* sequences it can return.  With a standard deviation of 0 every draw is the
\* mean itself.
PeriodDraws(s) ==
    LET mean == RoundHalfEven(period_n(s))
        each == IF s.period_std_s[1] = 0 THEN {mean}
                ELSE (mean - MaxJitter)..(mean + MaxJitter)
    IN  [1..n_periods(s) -> each]

\* A bound of a numpy slice over an array of n items: a negative bound counts
\* from the end, and both are clamped into 0..n.
SliceBound(i, n) == IF i < 0 THEN Max2(i + n, 0) ELSE Min2(i, n)

\* wfm[start:stop] = 1.0 on 0-based indices (data[i + 1] is sample i)
SetSlice(data, start, stop) ==
    LET lo == SliceBound(start, Len(data))
        hi == SliceBound(stop, Len(data))
    IN  [i \in 1..Len(data) |-> IF lo <= i - 1 /\ i - 1 < hi THEN 1 ELSE data[i]]

\* The loop of lines 132-137 from the k-th drawn period on.
RECURSIVE fill_periods(_, _, _, _, _)
fill_periods(data, periods, k, idx, half) ==
    IF k > Len(periods) THEN data
    ELSE LET this_period_n == periods[k]
             slice_end == IF idx + this_period_n > Len(data) THEN Len(data)
                          ELSE idx + this_period_n
         IN  fill_periods(SetSlice(data, idx + half, slice_end), periods, k + 1,
                          idx + this_period_n, half)

\* WfmSquare._create_wfm with the drawn periods given: the raw buffer.
create_raw(s, periods) ==
    [data |-> fill_periods([i \in 1..duration_n(s) |-> 0], periods, 1, 0,
                           n_samples_half_mean_period(s)),
     den |-> 1, filt |-> <<>>]

\* A create_wfm that filters the buffer the instance already holds, and
\* generates only when it holds none.
create_wfm_keeps_buffer(s, periods) ==
    IF create_wfm_precheck(s) # "none"
    THEN [raised |-> create_wfm_precheck(s), wfm |-> s.wfm]
    ELSE apply_filters(IF s.wfm.data = <<>> THEN create_raw(s, periods) ELSE s.wfm,
                       s._filter_list, 1)

\* Wfm.create_wfm: _create_wfm, then _apply_filters on what it stored.
create_wfm(s, periods) ==
    IF create_wfm_precheck(s) # "none"
    THEN [raised |-> create_wfm_precheck(s), wfm |-> s.wfm]
    ELSE apply_filters(create_raw(s, periods), s._filter_list, 1)

----------------------------------------------------------------------------
(* Writing the container *)

bits_n == 16

\* ((2**bits_n)/2)-1
FullScale == (2 ^ bits_n) \div 2 - 1

RECURSIVE MaxSeq(_)
MaxSeq(s) == IF Len(s) = 1 THEN s[1] ELSE Max2(Head(s), MaxSeq(Tail(s)))

\* sample * scale truncated toward zero, for the sample n/den and
\* scale = 0.8 * FullScale / (mx/den), mx # 0: trunc(n * 0.8 * FullScale / mx),
\* with 0.8 * FullScale = whole + fifths/5.
TruncScaled(n, mx) ==
    LET whole  == (4 * FullScale) \div 5
        fifths == (4 * FullScale) % 5
        a  == Abs(n)
        am == Abs(mx)
        q1 == (a * whole) \div am
        r1 == (a * whole) % am
    IN  Sgn(n) * Sgn(mx) * (q1 + (5 * r1 + fifths * a) \div (5 * am))

Int16Min == -(2 ^ (bits_n - 1))
Int16Max == 2 ^ (bits_n - 1) - 1

Wrap16(t) == ((t - Int16Min) % (2 ^ bits_n)) + Int16Min

\* astype(np.int16) of one scaled sample: the int16 values the cast can give.
\* A float outside the int16 range, an infinity or a NaN has no defined
\* result: builds wrap through a wider integer, saturate, or give a fixed
\* pattern.
Quantized(n, mx) ==
    IF mx = 0 THEN {0, -1, Int16Min, Int16Max}
    ELSE LET t == TruncScaled(n, mx)
         IN  IF Int16Min <= t /\ t <= Int16Max THEN {t}
             ELSE {Wrap16(t), IF t < 0 THEN Int16Min ELSE Int16Max}

\* max(self.wfm), the numerator of it
wfm_max(w) == MaxSeq(w.data)

\* The frame sequences wfm_scaled.tobytes() can hold: those of the first k
\* samples, each sample cast on its own.
RECURSIVE ScaledPrefix(_, _)
ScaledPrefix(w, k) ==
    IF k = 0 THEN {<<>>}
    ELSE {Append(q, v) : q \in ScaledPrefix(w, k - 1),
                         v \in Quantized(w.data[k], wfm_max(w))}

ScaledFrames(w) == ScaledPrefix(w, Len(w.data))

\* Wfm.write_wave with the quantized frames given: the container written.
write_wave(s, frames) ==
    [exists |-> TRUE,
     framerate |-> PackLE32(s.sample_rate_Hz[1]),
     nchannels |-> 1,
     sampwidth |-> bits_n \div 8,
     frames |-> frames]

----------------------------------------------------------------------------
(* Operations on the instance *)

Path == <<1>>      \* a file path; None is no path

NoArgs == [freq_Hz |-> None, duration_s |-> None, period_std_s |-> None,
           sample_rate_Hz |-> None, filepath |-> None]

\* wfm = WfmSquare(freq_Hz, duration_s, period_std_s, sample_rate_Hz, filepath)
Construct(a) ==
    LET r == WfmSquare_init(a, file)
    IN  /\ self' = r.self
        /\ args' = a
        /\ raised' = r.raised
        /\ op' = "__init__"
        /\ periods_n' = <<>>
        /\ UNCHANGED <<file, writers, utilVars, mainVars>>

\* wfm.add_filter_to_list(fs)
AddFilter(fs) ==
    /\ self.exists
    /\ LET r == add_filter_to_list(self._filter_list, fs)
       IN  /\ self' = [self EXCEPT !._filter_list = r.list]
           /\ raised' = r.raised
    /\ op' = "add_filter_to_list"
    /\ UNCHANGED <<args, periods_n, file, writers, utilVars, mainVars>>

\* wfm.create_wfm()
CreateWfm ==
    /\ self.exists
    /\ IF create_wfm_precheck(self) # "none"
       THEN /\ raised' = create_wfm_precheck(self)
            /\ UNCHANGED <<self, periods_n>>
       ELSE \E periods \in PeriodDraws(self) :
               LET r == create_wfm(self, periods)
               IN  /\ self' = [self EXCEPT !.wfm = r.wfm]
                   /\ raised' = r.raised
                   /\ periods_n' = periods
    /\ op' = "create_wfm"
    /\ UNCHANGED <<args, file, writers, utilVars, mainVars>>

\* wfm.write_wave(filepath).  The values of a filtered buffer are symbolic,
\* so only an unfiltered buffer is written.
WriteWave ==
    /\ self.exists
    /\ self.wfm.filt = <<>>
    /\ IF self.wfm.data = <<>>
       THEN /\ raised' = "ValueError"      \* max() of an empty sequence
            /\ UNCHANGED <<file, writers>>
       ELSE \E frames \in ScaledFrames(self.wfm) :
               /\ file' = write_wave(self, frames)
               /\ writers' = Append(writers, args)
               /\ raised' = "none"
    /\ op' = "write_wave"
    /\ UNCHANGED <<self, args, periods_n, utilVars, mainVars>>

----------------------------------------------------------------------------
(* Analysis functions (utils/util_funcs.py) *)

\* np.where(mask)[0] without the + 1: the index of the first sample of the pair.
RECURSIVE where_plus_0(_, _)
where_plus_0(mask, i) ==
    IF i > Len(mask) THEN <<>>
    ELSE IF mask[i] THEN <<i - 1>> \o where_plus_0(mask, i + 1)
    ELSE where_plus_0(mask, i + 1)

\* np.where(mask)[0] + 1 for the mask entries from position i on.  Position i
\* of the 1-based mask is numpy index i - 1, so the value recorded is i.
RECURSIVE where_plus_1(_, _)
where_plus_1(mask, i) ==
    IF i > Len(mask) THEN <<>>
    ELSE IF mask[i] THEN <<i>> \o where_plus_1(mask, i + 1)
    ELSE where_plus_1(mask, i + 1)

\* np.diff
diff(s) == [i \in 1..(Len(s) - 1) |-> s[i + 1] - s[i]]

\* float(np.mean(x)) as a rational
mean_of(x) == Rat(SumSeq(x), Len(x))

\* The sample variance (ddof = 1) in place of the population variance.
std2_sample(x) ==
    LET n == Len(x)
        S == SumSeq(x)
    IN  Rat(SumSeq([i \in 1..n |-> (n * x[i] - S) * (n * x[i] - S)]), n * n * (n - 1))

\* np.std(x) squared, as a rational: the mean of |x - x.mean()|**2.  With
\* S = sum(x) and n = len(x) a deviation is (n*x[i] - S)/n.
std2_of(x) ==
    LET n == Len(x)
        S == SumSeq(x)
    IN  Rat(SumSeq([i \in 1..n |-> (n * x[i] - S) * (n * x[i] - S)]), n * n * n)

\* analyze_transitions(wfm, threshold, pos_edge): (mean, std, count), std
\* given as its square, with the local transition_indices.
analyze_transitions(w, threshold, pos_edge) ==
    LET head == SubSeq(w, 1, Len(w) - 1)       \* wfm[:-1]
        rest == SubSeq(w, 2, Len(w))           \* wfm[1:]
        crossings ==
            IF pos_edge
            THEN [i \in 1..Len(head) |-> head[i] < threshold /\ rest[i] >= threshold]
            ELSE [i \in 1..Len(head) |-> head[i] > threshold /\ rest[i] <= threshold]
        transition_indices == where_plus_1(crossings, 1)
        durations == diff(transition_indices)
    IN  [mean  |-> IF Len(transition_indices) >= 2 THEN mean_of(durations) ELSE Rat(0, 1),
         std2  |-> IF Len(transition_indices) >= 2 THEN std2_of(durations) ELSE Rat(0, 1),
         count |-> Len(transition_indices),
         transition_indices |-> transition_indices]

\* Twice the cosine of 2*pi*j/N, an integer for these N.
TwoCos(N, j) ==
    CASE N = 1 -> 2
      [] N = 2 -> <<2, -2>>[j + 1]
      [] N = 3 -> <<2, -1, -1>>[j + 1]
      [] N = 4 -> <<2, 0, -2, 0>>[j + 1]
      [] N = 6 -> <<2, 1, -1, -2, -1, 1>>[j + 1]

\* The buffer lengths whose spectrum is computed exactly here.
ExactLens == {1, 2, 3, 4, 6}

\* np.abs(np.fft.rfft(wfm)) for bins 0..N/2, each magnitude v given as 2*v*v
\* (the order of the magnitudes is the order of these):
\* |X[k]|**2 = sum over p, q of x[p]*x[q]*cos(2*pi*k*(p-q)/N).
rfft_magnitude(w) ==
    LET N == Len(w)
    IN  [b \in 1..(N \div 2 + 1) |->
            SumSeq([p \in 1..N |->
                SumSeq([q \in 1..N |->
                    w[p] * w[q] * TwoCos(N, ((b - 1) * (p - q)) % N)])])]

\* np.argmax over the entries from position i on: the first maximal one
\* (1-based position).
RECURSIVE argmax_from(_, _, _)
argmax_from(mag, i, best) ==
    IF i > Len(mag) THEN best
    ELSE argmax_from(mag, i + 1, IF mag[i] > mag[best] THEN i ELSE best)

\* The DC bin left as it is.
keep_dc(magnitude) == magnitude

\* magnitude[0] = 0
ignore_dc(magnitude) == [magnitude EXCEPT ![1] = 0]

\* calculate_fundamental_frequency(wfm, sample_rate_Hz) on a buffer of
\* N >= 1 samples: the frequency, bin and zeroed spectrum, and the caller's
\* buffer after the call.
calculate_fundamental_frequency(w, sample_rate_Hz) ==
    LET magnitude  == ignore_dc(rfft_magnitude(w))
        peak_index == argmax_from(magnitude, 1, 1) - 1
    IN  [freq_Hz |-> Rat(peak_index * sample_rate_Hz, Len(w)),   \* freqs[peak_index]
         peak_index |-> peak_index,
         magnitude |-> magnitude,
         wfm |-> w]

NoRet == [fn |-> "none", raised |-> "none", mean |-> Rat(0, 1), std2 |-> Rat(0, 1),
          count |-> 0, transition_indices |-> <<>>, freq_Hz |-> Rat(0, 1),
          peak_index |-> 0, magnitude |-> <<>>, wfm_in |-> <<>>]

\* mean, std, count = analyze_transitions(buf, threshold, pos_edge)
AnalyzeTransitions ==
    /\ LET r == analyze_transitions(buf, call.threshold, call.pos_edge)
       IN  ret' = [NoRet EXCEPT !.fn = "analyze_transitions",
                                !.mean = r.mean, !.std2 = r.std2, !.count = r.count,
                                !.transition_indices = r.transition_indices,
                                !.wfm_in = buf]
    /\ UNCHANGED <<buf, call, wfmVars, mainVars>>

\* freq = calculate_fundamental_frequency(buf, sample_rate_Hz)
CalculateFundamentalFrequency ==
    /\ Len(buf) = 0 \/ Len(buf) \in ExactLens
    /\ IF Len(buf) = 0
       THEN /\ ret' = [NoRet EXCEPT !.fn = "calculate_fundamental_frequency",
                                    !.raised = "ValueError", !.wfm_in = buf]
            /\ UNCHANGED buf
       ELSE LET r == calculate_fundamental_frequency(buf, call.sample_rate_Hz)
            IN  /\ ret' = [NoRet EXCEPT !.fn = "calculate_fundamental_frequency",
                                        !.freq_Hz = r.freq_Hz,
                                        !.peak_index = r.peak_index,
                                        !.magnitude = r.magnitude,
                                        !.wfm_in = buf]
                /\ buf' = r.wfm
    /\ UNCHANGED <<call, wfmVars, mainVars>>

----------------------------------------------------------------------------
(* The comparison loop (tone_compare.py) *)

MaxSelected == 2   \* device indexes the operator enters
MaxQueue    == 2   \* messages waiting in keypress_queue

\* The entries of main's devices list, each with the buffers and sample rate
\* its branch of the loop can hand to calculate_fundamental_frequency: a
\* sound device records silence or a tone, a generated square wave is a
\* tone, a file holds a tone or no frames at all.
devices ==
    <<[kind |-> "sound",  sr_Hz |-> 1760,
       wfm_data |-> {<<0, 0, 0, 0>>, <<1, 0, -1, 0>>, <<1, -1, 1, -1>>}],
      [kind |-> "square", sr_Hz |-> 1760, wfm_data |-> {<<0, 1, 0, 1>>}],
      [kind |-> "file",   sr_Hz |-> 1760, wfm_data |-> {<<1, 0, -1, 0>>, <<>>}]>>

\* What the operator types at one prompt of select_devices: nothing, an
\* integer, or something int() rejects.
UserInputs ==
    [text : {"empty", "other"}, value : {0}]
        \cup [text : {"int"}, value : -1..Len(devices)]

\* main before it asks for the selection.
InitMain ==
    /\ selected_indexes = <<>>
    /\ m = 0
    /\ freq_Hz = Unset
    /\ last_dev_freq_Hz = None
    /\ keypress_queue = <<>>
    /\ space_pressed = FALSE
    /\ pc_main = "select"
    /\ pc_monitor = "none"
    /\ main_raised = "none"

\* One prompt of select_devices (lines 46-60); the empty input returns the
\* list to main.
SelectInput(u) ==
    /\ pc_main = "select"
    /\ IF u.text = "empty"
       THEN pc_main' = "spawn" /\ UNCHANGED selected_indexes
       ELSE /\ u.text = "int" /\ 0 <= u.value /\ u.value < Len(devices)
            /\ Len(selected_indexes) < MaxSelected
            /\ selected_indexes' = Append(selected_indexes, u.value)
            /\ UNCHANGED pc_main
    /\ UNCHANGED <<m, freq_Hz, last_dev_freq_Hz, keypress_queue, space_pressed,
                   pc_monitor, main_raised, wfmVars, utilVars>>

\* keypress_proc.start() (lines 128-131)
SpawnMonitor ==
    /\ pc_main = "spawn"
    /\ pc_main' = "wait_ready"
    /\ pc_monitor' = "started"
    /\ UNCHANGED <<selected_indexes, m, freq_Hz, last_dev_freq_Hz, keypress_queue,
                   space_pressed, main_raised, wfmVars, utilVars>>

\* keypress_monitor: ready_event.set() (line 88)
MonitorReady ==
    /\ pc_monitor = "started"
    /\ pc_monitor' = "poll"
    /\ UNCHANGED <<selected_indexes, m, freq_Hz, last_dev_freq_Hz, keypress_queue,
                   space_pressed, pc_main, main_raised, wfmVars, utilVars>>

\* ready_event.wait() returns; m = 0; last_dev_freq_Hz = None (lines 132-137)
EnterLoop ==
    /\ pc_main = "wait_ready"
    /\ pc_monitor \in {"poll", "debounce"}
    /\ m' = 0
    /\ last_dev_freq_Hz' = None
    /\ pc_main' = "measure"
    /\ UNCHANGED <<selected_indexes, freq_Hz, keypress_queue, space_pressed,
                   pc_monitor, main_raised, wfmVars, utilVars>>

\* An exception other than KeyboardInterrupt leaves the loop through the
\* finally clause, which terminates the monitor (lines 197-200).
Crash(exception) ==
    /\ pc_main' = "crashed"
    /\ main_raised' = exception
    /\ pc_monitor' = "terminated"
    /\ UNCHANGED <<selected_indexes, m, freq_Hz, last_dev_freq_Hz>>

\* Lines 140-184 of one pass: pick the device, get its buffer, estimate the
\* frequency, format the ratio.
Measure ==
    /\ pc_main = "measure"
    /\ IF ~(m < Len(selected_indexes))
       THEN Crash("IndexError")                      \* selected_indexes[m]
       ELSE LET this_dev == devices[selected_indexes[m + 1] + 1]
            IN  \E wfm_data \in this_dev.wfm_data :
                   IF wfm_data = <<>>
                   THEN Crash("ValueError")          \* rfft of no samples
                   ELSE LET f == calculate_fundamental_frequency(
                                     wfm_data, this_dev.sr_Hz).freq_Hz
                        IN  IF last_dev_freq_Hz # None /\ last_dev_freq_Hz[1] = 0
                            THEN /\ Crash("ZeroDivisionError") \* freq_Hz/last_dev_freq_Hz
                                 /\ freq_Hz' = f
                                 /\ UNCHANGED <<selected_indexes, m, last_dev_freq_Hz>>
                            ELSE /\ freq_Hz' = f
                                 /\ pc_main' = "drain"
                                 /\ UNCHANGED <<selected_indexes, m, last_dev_freq_Hz,
                                                pc_monitor, main_raised>>
    /\ UNCHANGED <<keypress_queue, space_pressed, wfmVars, utilVars>>

\* One test of the loop of lines 187-191: take a message, or go round again.
Drain ==
    /\ pc_main = "drain"
    /\ IF keypress_queue = <<>>
       THEN /\ pc_main' = "measure"
            /\ UNCHANGED <<m, last_dev_freq_Hz, keypress_queue>>
       ELSE LET msg == Head(keypress_queue)
            IN  /\ keypress_queue' = Tail(keypress_queue)
                /\ IF msg = "space"
                   THEN /\ m' = (m + 1) % Len(selected_indexes)
                        /\ last_dev_freq_Hz' = freq_Hz
                   ELSE UNCHANGED <<m, last_dev_freq_Hz>>
                /\ UNCHANGED pc_main
    /\ UNCHANGED <<selected_indexes, freq_Hz, space_pressed, pc_monitor,
                   main_raised, wfmVars, utilVars>>

\* Ctrl+C in the loop (lines 193-200)
Interrupt ==
    /\ pc_main \in {"measure", "drain"}
    /\ pc_main' = "stopped"
    /\ pc_monitor' = "terminated"
    /\ UNCHANGED <<selected_indexes, m, freq_Hz, last_dev_freq_Hz, keypress_queue,
                   space_pressed, main_raised, wfmVars, utilVars>>

\* The operator presses or releases the space key.
PressSpace ==
    /\ ~space_pressed
    /\ space_pressed' = TRUE
    /\ UNCHANGED <<selected_indexes, m, freq_Hz, last_dev_freq_Hz, keypress_queue,
                   pc_main, pc_monitor, main_raised, wfmVars, utilVars>>

ReleaseSpace ==
    /\ space_pressed
    /\ space_pressed' = FALSE
    /\ UNCHANGED <<selected_indexes, m, freq_Hz, last_dev_freq_Hz, keypress_queue,
                   pc_main, pc_monitor, main_raised, wfmVars, utilVars>>

\* keypress_monitor finds the key down: q.put('space') (lines 90-91)
MonitorPoll ==
    /\ pc_monitor = "poll"
    /\ space_pressed
    /\ Len(keypress_queue) < MaxQueue
    /\ keypress_queue' = Append(keypress_queue, "space")
    /\ pc_monitor' = "debounce"
    /\ UNCHANGED <<selected_indexes, m, freq_Hz, last_dev_freq_Hz, space_pressed,
                   pc_main, main_raised, wfmVars, utilVars>>

\* keypress_monitor finds the key up again (lines 92-94)
MonitorDebounce ==
    /\ pc_monitor = "debounce"
    /\ ~space_pressed
    /\ pc_monitor' = "poll"
    /\ UNCHANGED <<selected_indexes, m, freq_Hz, last_dev_freq_Hz, keypress_queue,
                   space_pressed, pc_main, main_raised, wfmVars, utilVars>>

----------------------------------------------------------------------------
(* Inputs and specifications *)

MaxFilters == 2    \* filters attached to one instance
MaxLen     == 7    \* samples in a buffer handed to the analysis functions
MaxWrites  == 1    \* write_wave calls in one run

\* Constructor arguments.  The frequencies give nominal periods of 4 and 5
\* samples at the default sample rate of 192000 Hz and of 2 and 2.5 samples
\* at 96000 Hz; the duration gives buffers of 7 and of ceil(3.5) = 4 samples.
\* 0.25/freq_Hz is 1/192000 s and 1/153600 s.
Freqs     == {None, Rat(48000, 1), Rat(38400, 1)}
Durations == {None, Rat(7, 192000)}
PeriodStds == {None, Rat(0, 1), Rat(1, 192000), Rat(1, 48000)}
SampleRates == {None, Rat(96000, 1)}

\* Every combination for a generated waveform; with a file path, the
\* combinations of frequency and period standard deviation.
CtorArgs ==
    {a \in [freq_Hz : Freqs, duration_s : Durations, period_std_s : PeriodStds,
            sample_rate_Hz : SampleRates, filepath : {None, Path}] :
        a.filepath = None \/ (a.duration_s = None /\ a.sample_rate_Hz = None)}

FilterInputs ==
    {NotAFilter,
     FilterButterworth(192000, 10000, 1, "low"),
     FilterButterworth(192000, 10000, 2, "low"),
     FilterButterworth(192000, 96000, 1, "low")}

\* A 16-bit mono container that some other program left on disk.
ExternalFile(rate, width, channels, frames) ==
    [exists |-> TRUE, framerate |-> PackLE32(rate), nchannels |-> channels,
     sampwidth |-> width, frames |-> frames]

InitUtil ==
    /\ buf = <<>>
    /\ call = [threshold |-> 0, pos_edge |-> TRUE, sample_rate_Hz |-> C_DEFAULT_SR_Hz]
    /\ ret = NoRet

InitWfm ==
    /\ self = NoInstance
    /\ args = NoArgs
    /\ raised = "none"
    /\ op = "none"
    /\ periods_n = <<>>
    /\ writers = <<>>

\* The life of a generated waveform: construction, filters, generation.
Init ==
    /\ InitWfm
    /\ InitMain
    /\ InitUtil
    /\ file \in {NoFile, ExternalFile(44100, 2, 1, <<16384, -16384>>)}

Next ==
    \/ \E a \in CtorArgs : Construct(a)
    \/ \E fs \in FilterInputs : Len(self._filter_list) < MaxFilters /\ AddFilter(fs)
    \/ CreateWfm

Spec == Init /\ [][Next]_vars

\* The analysis functions on every small buffer.
\* Samples below, at and above a threshold of 0, and at and around one of 1.
Samples == {-1, 0, 1}

Buffers == UNION {[1..n -> Samples] : n \in 0..MaxLen}

InitAnalysis ==
    /\ InitWfm
    /\ InitMain
    /\ file = NoFile
    /\ buf \in Buffers
    /\ call \in [threshold : {0, 1}, pos_edge : BOOLEAN, sample_rate_Hz : {44100, C_DEFAULT_SR_Hz}]
    /\ ret = NoRet

NextAnalysis ==
    \/ AnalyzeTransitions
    \/ CalculateFundamentalFrequency

SpecAnalysis == InitAnalysis /\ [][NextAnalysis]_vars

\* Writing a waveform and loading it back, and loading and rewriting the
\* containers of other programs.
ExtSamples == {-32768, -5, -2, 0, 1, 4, 32767}

ExternalFiles ==
    {ExternalFile(rate, width, channels, frames) :
        rate \in {44100}, width \in {1, 2, 4}, channels \in {1, 2},
        frames \in [1..2 -> ExtSamples]}

FileCtorArgs ==
    {a \in [freq_Hz : {None, Rat(48000, 1), Rat(38400, 1), Rat(76800, 1)},
            duration_s : {None, Rat(1, 32000), Rat(1, 12000)},
            period_std_s : {None, Rat(0, 1)},
            sample_rate_Hz : {None, Rat(44100, 1), Rat(70000, 1)},
            filepath : {None, Path}] :
        \/ a.filepath = None /\ a.freq_Hz # None /\ a.duration_s # None
                             /\ a.period_std_s # None
        \/ a = [NoArgs EXCEPT !.filepath = Path]}

InitFile ==
    /\ InitWfm
    /\ InitMain
    /\ InitUtil
    /\ file \in {NoFile} \cup ExternalFiles

NextFile ==
    \/ \E a \in FileCtorArgs : Construct(a)
    \/ CreateWfm
    \/ Len(writers) < MaxWrites /\ WriteWave

SpecFile == InitFile /\ [][NextFile]_vars

\* Generation followed by filtering.  At 192000 Hz the durations give 7 and
\* 13 samples, at 96000 Hz ceil(3.5) = 4 and ceil(6.5) = 7: filtfilt accepts
\* an order-1 filter above 6 samples and an order-2 filter above 9.  The
\* nominal periods are 5 and 4 samples (2.5 and 2 at 96000 Hz); the period
\* varies for the shorter duration at 38400 Hz.
PipelineCtorArgs ==
    {a \in [freq_Hz : {Rat(38400, 1), Rat(48000, 1)},
            duration_s : {Rat(7, 192000), Rat(13, 192000)},
            period_std_s : {Rat(0, 1), Rat(1, 192000)},
            sample_rate_Hz : {None, Rat(96000, 1)},
            filepath : {None}] :
        a.period_std_s # Rat(0, 1) =>
            a.freq_Hz = Rat(38400, 1) /\ a.duration_s = Rat(7, 192000)}

PipelineFilters ==
    FilterInputs \cup {FilterButterworth(192000, 20000, 1, "high")}

InitPipeline ==
    /\ InitWfm
    /\ InitMain
    /\ InitUtil
    /\ file = NoFile

NextPipeline ==
    \/ \E a \in PipelineCtorArgs : Construct(a)
    \/ \E fs \in PipelineFilters : Len(self._filter_list) < MaxFilters /\ AddFilter(fs)
    \/ CreateWfm

SpecPipeline == InitPipeline /\ [][NextPipeline]_vars

\* main with the key-press monitor beside it.
InitMainLoop ==
    /\ InitWfm
    /\ InitUtil
    /\ InitMain
    /\ file = NoFile

NextMain ==
    \/ \E u \in UserInputs : SelectInput(u)
    \/ SpawnMonitor
    \/ MonitorReady
    \/ EnterLoop
    \/ Measure
    \/ Drain
    \/ Interrupt
    \/ PressSpace
    \/ ReleaseSpace
    \/ MonitorPoll
    \/ MonitorDebounce

SpecMain == InitMainLoop /\ [][NextMain]_vars

----------------------------------------------------------------------------
(* Construction errors *)

GeneratedArgs == args.filepath = None

\* C1: for every frequency > 0 and period standard deviation above
\* 0.25/frequency, constructing a square waveform from generation parameters
\* fails with ValueError, so no instance exists afterwards.
C1_BadPeriodStdRejected ==
    (/\ op # "none" /\ GeneratedArgs
     /\ IsNum(args.freq_Hz) /\ args.freq_Hz[1] > 0
     /\ IsNum(args.period_std_s)
     /\ RatGt(RatMul(args.period_std_s, args.freq_Hz), Rat(1, 4)))
    => (~self.exists /\ (op = "__init__" => raised = "ValueError"))

\* C2: construction succeeds only if a file path is given or both frequency
\* and duration are given.
C2_SourceRequired ==
    self.exists =>
        \/ args.filepath # None
        \/ (args.freq_Hz # None /\ args.duration_s # None)

\* C9: a WfmSquare built from a frequency and a duration alone runs
\* create_wfm to completion at 192000 Hz, exactly as with period_std = 0.
C9_PeriodStdDefaultsToZero ==
    (/\ op = "create_wfm" /\ GeneratedArgs
     /\ Truthy(args.freq_Hz) /\ Truthy(args.duration_s)
     /\ args.period_std_s = None /\ args.sample_rate_Hz = None
     /\ self._filter_list = <<>>)
    => LET zero == [self EXCEPT !.period_std_s = Rat(0, 1)]
       IN  /\ raised = "none"
           /\ self.sample_rate_Hz = Rat(C_DEFAULT_SR_Hz, 1)
           /\ periods_n \in PeriodDraws(zero)
           /\ self.wfm = create_wfm(zero, periods_n).wfm

----------------------------------------------------------------------------
(* analyze_transitions *)

Analyzed == ret.fn = "analyze_transitions"

\* Sample i of the buffer, i counted from 0 as in the source.
Sample(i) == buf[i + 1]

\* The pair (sample i-1, sample i) crosses the threshold in the direction asked.
Crosses(i) ==
    IF call.pos_edge
    THEN Sample(i - 1) < call.threshold /\ Sample(i) >= call.threshold
    ELSE Sample(i - 1) > call.threshold /\ Sample(i) <= call.threshold

CrossingSet == {i \in 1..(Len(buf) - 1) : Crosses(i)}

SeqRange(s) == {s[i] : i \in 1..Len(s)}

\* C3: analyze_transitions counts exactly the indices i >= 1 whose pair
\* (sample i-1, sample i) crosses the threshold in the requested direction,
\* records the index i of the second sample, each once and in order, and
\* leaves the buffer as it was.
C3_CountsExactlyTheCrossings ==
    Analyzed =>
        /\ SeqRange(ret.transition_indices) = CrossingSet
        /\ ret.count = Cardinality(CrossingSet)
        /\ \A j \in 1..(Len(ret.transition_indices) - 1) :
              ret.transition_indices[j] < ret.transition_indices[j + 1]
        /\ buf = ret.wfm_in

\* A falling-edge call that found two crossings or more.
C3_Witness ==
    Analyzed /\ ~call.pos_edge /\ ret.count >= 2

RatEq(x, y) == x[1] * y[2] = y[1] * x[2]

Gap(j) == ret.transition_indices[j + 1] - ret.transition_indices[j]

GapSum   == SumSeq([j \in 1..(ret.count - 1) |-> Gap(j)])
GapSqSum == SumSeq([j \in 1..(ret.count - 1) |-> Gap(j) * Gap(j)])

\* C4: count is the number of transitions; with two or more, mean and std
\* are the mean and the population standard deviation of the gaps between
\* consecutive transition indices (mean * (count - 1) = last - first, and
\* std = 0 exactly when all gaps are equal); with fewer, mean = std = 0 and
\* count is the raw crossing count.
C4_GapStatistics ==
    Analyzed =>
        /\ ret.count = Cardinality(CrossingSet)
        /\ ret.count >= 2 =>
              LET n == ret.count - 1
              IN  /\ ret.mean[1] * n =
                        (ret.transition_indices[ret.count] - ret.transition_indices[1])
                            * ret.mean[2]
                  /\ RatEq(ret.mean, Rat(GapSum, n))
                  \* the population variance: E[g*g] - E[g]*E[g]
                  /\ RatEq(ret.std2, Rat(n * GapSqSum - GapSum * GapSum, n * n))
                  /\ (ret.std2[1] = 0) <=> (\A j \in 1..n : Gap(j) = Gap(1))
        /\ ret.count < 2 =>
              /\ ret.count \in {0, 1}
              /\ ret.mean[1] = 0 /\ ret.std2[1] = 0

\* Three transitions or more with unequal gaps.
C4_Witness ==
    Analyzed /\ ret.count >= 3 /\ ret.std2[1] > 0

\* One crossing only: count 1, mean and std 0.
C4_WitnessSingle ==
    Analyzed /\ ret.count = 1 /\ ret.mean[1] = 0

----------------------------------------------------------------------------
(* calculate_fundamental_frequency *)

Estimated == ret.fn = "calculate_fundamental_frequency" /\ ret.raised = "none"

\* The magnitude of bin k (from 0) of the caller's buffer, DC ignored.
MagIgnoringDC(k) == IF k = 0 THEN 0 ELSE rfft_magnitude(buf)[k + 1]

Bins == 0..(Len(buf) \div 2)

\* C8: the result is the frequency bin * sample_rate / N of the
\* lowest-indexed bin whose magnitude is maximal once the DC bin counts as 0;
\* a buffer with energy at DC only gives 0 Hz, and the caller's buffer is
\* not modified.
C8_PeakIgnoringDC ==
    Estimated =>
        /\ ret.peak_index \in Bins
        /\ \A k \in Bins : MagIgnoringDC(k) <= MagIgnoringDC(ret.peak_index)
        /\ \A k \in Bins : k < ret.peak_index =>
                              MagIgnoringDC(k) < MagIgnoringDC(ret.peak_index)
        /\ RatEq(ret.freq_Hz, Rat(ret.peak_index * call.sample_rate_Hz, Len(buf)))
        /\ (\A k \in Bins : MagIgnoringDC(k) = 0) => ret.freq_Hz[1] = 0
        /\ buf = ret.wfm_in

\* The DC bin is the largest of the spectrum, and a later bin is reported.
C8_Witness ==
    /\ Estimated /\ ret.peak_index >= 1
    /\ rfft_magnitude(buf)[1] > rfft_magnitude(buf)[ret.peak_index + 1]

----------------------------------------------------------------------------
(* Generation *)

\* create_wfm ran and _create_wfm stored a raw buffer.
Generated == op = "create_wfm" /\ raised \notin {"AttributeError", "TypeError"}

\* The running index at which the k-th drawn period begins.
PeriodStart(k) == SumSeq(SubSeq(periods_n, 1, k - 1))

RawLen == Len(self.wfm.data)

\* Sample i lies in the on part of some period: from its start plus the
\* nominal half period up to its end, clamped to the buffer.
InOnPart(i) ==
    \E k \in 1..Len(periods_n) :
        /\ PeriodStart(k) + n_samples_half_mean_period(self) <= i
        /\ i < Min2(PeriodStart(k) + periods_n[k], RawLen)

\* Sample i lies in the off part of some period: its first nominal half period.
InOffPart(i) ==
    \E k \in 1..Len(periods_n) :
        /\ PeriodStart(k) <= i
        /\ i < PeriodStart(k) + n_samples_half_mean_period(self)

\* C5: for every sequence of drawn period lengths the raw buffer is 1 exactly
\* on the on part of each period and 0 elsewhere, in particular on the off
\* part of each period and on what the periods do not cover.
C5_RawBufferShape ==
    Generated =>
        \A i \in 0..(RawLen - 1) :
            /\ self.wfm.data[i + 1] \in {0, 1}
            /\ (self.wfm.data[i + 1] = 1) <=> InOnPart(i)
            /\ InOffPart(i) => self.wfm.data[i + 1] = 0

ZeroStd ==
    /\ op = "create_wfm" /\ GeneratedArgs
    /\ Truthy(args.freq_Hz) /\ Truthy(args.duration_s)
    /\ args.period_std_s = Rat(0, 1)

\* analyze_transitions on the raw 0/1 buffer at threshold 0.5, both doubled.
RawTransitions(pos_edge) ==
    analyze_transitions([i \in 1..RawLen |-> 2 * self.wfm.data[i]], 1, pos_edge)

\* C6: with a period standard deviation of 0 generation succeeds, every
\* drawn period is the nominal period rounded to the nearest integer, and the
\* gaps between consecutive transitions of one direction all equal it, so
\* analyze_transitions reports a standard deviation of 0.
C6_ZeroStdIsPeriodic ==
    ZeroStd =>
        LET pn == RatDiv(self.sample_rate_Hz, self.freq_Hz)
        IN  /\ Generated
            /\ \A k \in 1..Len(periods_n) :
                  /\ 2 * Abs(periods_n[k] * pn[2] - pn[1]) <= pn[2]
                  /\ periods_n[k] = periods_n[1]
            /\ \A pos_edge \in BOOLEAN :
                  LET r == RawTransitions(pos_edge)
                  IN  /\ \A j \in 1..(r.count - 1) :
                            r.transition_indices[j + 1] - r.transition_indices[j]
                                = periods_n[1]
                      /\ r.std2[1] = 0

\* A strictly periodic buffer with three rising edges or more.
C6_Witness ==
    ZeroStd /\ Generated /\ RawTransitions(TRUE).count >= 3

----------------------------------------------------------------------------
(* The container *)

\* The instance was loaded from a container that a generated waveform wrote.
LoadedFromWritten ==
    /\ self.exists /\ args.filepath # None
    /\ writers # <<>> /\ writers[Len(writers)].filepath = None

\* The sample rate the writing instance was generated with.
WriterRate ==
    LET w == writers[Len(writers)]
    IN  IF w.sample_rate_Hz # None THEN w.sample_rate_Hz ELSE Rat(C_DEFAULT_SR_Hz, 1)

\* C7: a waveform generated at rate R (192000 when none is given), written
\* with write_wave and loaded from the path alone has sample_rate_Hz = R.
C7_SampleRateRoundTrip ==
    LoadedFromWritten => RatEq(self.sample_rate_Hz, WriterRate)

\* Loaded back at a rate that is not the generator default.
C7_Witness ==
    /\ LoadedFromWritten
    /\ ~RatEq(WriterRate, Rat(C_DEFAULT_SR_Hz, 1))
    /\ RatEq(self.sample_rate_Hz, WriterRate)

\* write_wave wrote the instance's buffer, which has a non-zero sample.
WroteNonZero ==
    /\ op = "write_wave" /\ raised = "none"
    /\ \E i \in 1..RawLen : self.wfm.data[i] # 0

MaxAbsSample == MaxSeq([i \in 1..RawLen |-> Abs(self.wfm.data[i])])

\* trunc(0.8 * 32767)
EightyPercent == (4 * FullScale) \div 5

\* C10: every quantized sample lies within 80% of the 16-bit full scale and
\* the sample of largest magnitude maps to magnitude trunc(0.8 * 32767).
C10_ScaledToEightyPercent ==
    WroteNonZero =>
        \A i \in 1..RawLen :
            /\ Abs(file.frames[i]) <= EightyPercent
            /\ Abs(self.wfm.data[i]) = MaxAbsSample
                  => Abs(file.frames[i]) = EightyPercent

----------------------------------------------------------------------------
(* Decoding a container *)

\* The last operation constructed an instance from the container on disk.
Decoded == op = "__init__" /\ args.filepath # None /\ file.exists

\* C11: decoding 16-bit or 32-bit PCM gives a buffer whose every sample lies
\* in [-1, 1], for every integer sample value down to the most negative one;
\* a container of any other sample width fails with ValueError.
C11_DecodedWithinUnitRange ==
    Decoded =>
        IF file.sampwidth \in {2, 4}
        THEN /\ raised = "none" /\ self.exists
             /\ \A i \in 1..Len(self.wfm.data) :
                   Abs(self.wfm.data[i]) <= self.wfm.den
        ELSE raised = "ValueError" /\ ~self.exists

\* The part of C11 the code keeps: a width other than 2 or 4 bytes is
\* rejected, and a sample decodes to its integer over the type's maximum, so
\* only the most negative integer leaves the range.
C11_UnsupportedWidthRejected ==
    Decoded =>
        /\ file.sampwidth \notin {2, 4} => raised = "ValueError" /\ ~self.exists
        /\ file.sampwidth \in {2, 4} =>
              /\ raised = "none"
              /\ self.wfm.den = IinfoMax(file.sampwidth)
              /\ \A i \in 1..Len(self.wfm.data) :
                    Abs(self.wfm.data[i]) - 1 <= self.wfm.den

----------------------------------------------------------------------------
(* The filter pipeline *)

\* The coefficient pairs of the attached filters, in list order.
ListCoefficients == [k \in 1..Len(self._filter_list) |-> self._filter_list[k][2]]

\* The raw buffer that the periods drawn last give.
RawOfLastDraw == create_raw(self, periods_n)

\* create_wfm raised while generating or while filtering.
CreateFailed == op = "create_wfm" /\ raised # "none"

\* The instance holds the buffer of the last generation with only the first
\* j attached filters applied, for some j below the number attached.
HoldsPartialBuffer ==
    /\ create_wfm_precheck(self) = "none"
    /\ self.wfm.data # <<>>
    /\ self.wfm.data = RawOfLastDraw.data
    /\ \E j \in 0..(Len(self._filter_list) - 1) :
          self.wfm.filt = SubSeq(ListCoefficients, 1, j)

\* C12: when create_wfm fails, during generation or while applying the k-th
\* filter, the instance holds no partially processed buffer afterwards: its
\* buffer is not the output of the first k-1 filters.
C12_NoPartialBufferAfterFailure ==
    CreateFailed => ~HoldsPartialBuffer

\* A failure in the second filter that leaves the output of the first.
C12_FirstFilterOutputKept ==
    /\ CreateFailed
    /\ Len(self._filter_list) = 2
    /\ self.wfm.filt = <<ListCoefficients[1]>>
    /\ self.wfm.data = RawOfLastDraw.data

\* create_wfm ran to its end.
Created == op = "create_wfm" /\ raised = "none"

\* C13: create_wfm generates the raw buffer first and then applies each
\* attached filter exactly once, in the order the filters were attached, also
\* when it is called again (it filters a newly generated raw buffer, not the
\* buffer it filtered before); an accepted add_filter_to_list appends to the
\* list and a rejected one leaves the list as it was.
C13_FiltersOnceInAttachmentOrder ==
    /\ [](Created =>
             /\ self.wfm.data = RawOfLastDraw.data
             /\ self.wfm.filt = ListCoefficients)
    /\ [][/\ op' = "add_filter_to_list" /\ raised' # "none" =>
                self'._filter_list = self._filter_list
          /\ op' = "add_filter_to_list" /\ raised' = "none" =>
                /\ Len(self'._filter_list) = Len(self._filter_list) + 1
                /\ SubSeq(self'._filter_list, 1, Len(self._filter_list))
                      = self._filter_list
                /\ LET new == self'._filter_list[Len(self'._filter_list)]
                   IN  new[2] = butter(new[1].order,
                                       Rat(2 * new[1].cutoff_Hz, new[1].sample_rate_Hz),
                                       new[1].type).ba
         ]_vars

\* Two different filters, both applied to a buffer that is not constant.
C13_Witness ==
    /\ Created
    /\ Len(self.wfm.filt) = 2
    /\ self.wfm.filt[1] # self.wfm.filt[2]
    /\ self.wfm.filt = ListCoefficients
    /\ \E i, j \in 1..RawLen : self.wfm.data[i] # self.wfm.data[j]

\* duration_s * sample_rate_Hz and sample_rate_Hz / freq_Hz as fractions
DurationTimesRate == RatMul(self.duration_s, self.sample_rate_Hz)
NominalPeriod == RatDiv(self.sample_rate_Hz, self.freq_Hz)

\* n is the least integer that is at least the fraction x
IsCeilingOf(n, x) == n * x[2] >= x[1] /\ (n - 1) * x[2] < x[1]

\* C14: after a create_wfm that returns, whatever the number of attached
\* filters, the buffer has exactly ceiling(duration * sample rate) samples
\* (every filter having been applied to it), and the number of periods drawn
\* is ceiling(samples / nominal period in samples).
C14_LengthPreserved ==
    Created =>
        /\ IsCeilingOf(RawLen, DurationTimesRate)
        /\ Len(self.wfm.filt) = Len(self._filter_list)
        /\ IsCeilingOf(Len(periods_n),
                       RatDiv(Rat(RawLen, 1), NominalPeriod))

\* A filtered buffer whose duration is no whole number of samples and whose
\* length is no whole number of nominal periods.
C14_Witness ==
    /\ Created
    /\ Len(self.wfm.filt) >= 1
    /\ RawLen * DurationTimesRate[2] > DurationTimesRate[1]
    /\ Len(periods_n) * NominalPeriod[1] > RawLen * NominalPeriod[2]

----------------------------------------------------------------------------
(* The comparison loop *)

\* main is in its loop.
InLoop == pc_main \in {"measure", "drain"}

\* main took a message from the queue in this step.
MessageTaken == Len(keypress_queue') < Len(keypress_queue)

\* Each message taken advances m by one modulo the number selected and makes
\* the frequency measured last the reference; nothing else changes the
\* reference.
SpaceAdvances ==
    /\ MessageTaken =>
          /\ m' = (m + 1) % Len(selected_indexes)
          /\ last_dev_freq_Hz' = freq_Hz
          /\ freq_Hz' = freq_Hz
    /\ last_dev_freq_Hz' # last_dev_freq_Hz => MessageTaken
    /\ m' # m => MessageTaken

\* C15: in the loop, beside the key-press monitor, m is always a valid index
\* into the selected sources (0 <= m < their number) for every selection the
\* operator can make, the empty one included; each 'space' message taken
\* advances m by exactly one modulo their number; and the reference frequency
\* changes only when a message is taken, to the frequency measured just before.
C15_IndexValidAndSpaceAdvances ==
    /\ [](InLoop => 0 <= m /\ m < Len(selected_indexes))
    /\ [][SpaceAdvances]_vars

\* The part of C15 that holds: for a selection that is not empty the index
\* stays valid, and messages advance it as claimed.
C15_ValidForNonEmptySelection ==
    /\ [](InLoop /\ selected_indexes # <<>> => 0 <= m /\ m < Len(selected_indexes))
    /\ [][SpaceAdvances]_vars

\* The index wrapped round to 0 after two messages, with a new reference.
C15_WrappedRound ==
    /\ pc_main = "drain" /\ Len(selected_indexes) = 2
    /\ m = 0 /\ last_dev_freq_Hz # None /\ last_dev_freq_Hz = freq_Hz

====
